---- MODULE Spec2Model ----
(***************************************************************************)
(* Genesis construction of a beacon state                                  *)
(* (consensus/state_processing/src/genesis.rs):                            *)
(* initialize_beacon_state_from_eth1, process_activations and              *)
(* eth2_genesis_time, stepped statement by statement.                      *)
(*                                                                         *)
(* The collaborators that live in other crates of the repository (the      *)
(* deposit tree, process_deposit, the upgrade functions, BeaconState::new, *)
(* the header accessors, build_caches, the tree hash and safe_arith) are   *)
(* modelled from their contracts; a collaborator that may fail for reasons *)
(* outside this file takes its verdict as a nondeterministic input.        *)
(***************************************************************************)
EXTENDS Integers, Sequences, FiniteSets, TLC

VARIABLES eth1_block_hash, eth1_timestamp, deposits, execution_payload_header,
          spec, pc, state, deposit_tree, i, result, steps, calls, valid

vars == <<eth1_block_hash, eth1_timestamp, deposits, execution_payload_header,
          spec, pc, state, deposit_tree, i, result, steps, calls, valid>>

inputs == <<eth1_block_hash, eth1_timestamp, deposits, execution_payload_header, spec>>

(***************************************************************************)
(* Bounds                                                                  *)
(***************************************************************************)
\* longest deposit list tried
MaxDeposits == 3
\* deposit amounts are 1..MaxAmount
MaxAmount == 2
\* public keys are 1..MaxPubkey
MaxPubkey == 2
\* largest value of the unsigned integer type (u64::MAX, scaled down)
UintMax == 15
\* depth of the deposit tree (32 in the protocol, scaled down so that the
\* tree can fill up)
DEPOSIT_TREE_DEPTH == 1
\* largest effective_balance_increment tried (0 is tried too)
MaxIncrement == 2
\* max_effective_balance is 1..MaxMaxEffective
MaxMaxEffective == 2
\* min_genesis_time is 1..MaxMinGenesisTime
MaxMinGenesisTime == 2
\* min_genesis_active_validator_count is 0..MaxMinValidatorCount
MaxMinValidatorCount == 2
\* longest validator list and balance list handed to process_activations
\* when it is called on its own
MaxValidators == 2

(***************************************************************************)
(* Program constants                                                       *)
(***************************************************************************)
GENESIS_EPOCH == 0
FAR_FUTURE_EPOCH == UintMax

(***************************************************************************)
(* Result<T, E> and the error values                                       *)
(***************************************************************************)
Ok(v) == [ok |-> TRUE, val |-> v]
Err(e) == [ok |-> FALSE, err |-> e]
Error(kind, index) == [kind |-> kind, index |-> index]

(***************************************************************************)
(* safe_arith: checked arithmetic on the unsigned type                     *)
(***************************************************************************)
safe_add(a, b) == IF a + b > UintMax THEN Err(Error("ArithError", 0)) ELSE Ok(a + b)
safe_sub(a, b) == IF b > a THEN Err(Error("ArithError", 0)) ELSE Ok(a - b)
safe_rem(a, b) == IF b = 0 THEN Err(Error("ArithError", 0)) ELSE Ok(a % b)

Min(a, b) == IF a <= b THEN a ELSE b

(***************************************************************************)
(* Hash256 values.  A hash is the pair of what was hashed and the data, so *)
(* that two hashes are equal exactly when they commit to the same thing.   *)
(***************************************************************************)
Hash(kind, data) == [kind |-> kind, data |-> data]
ZeroHash == Hash("zero", <<>>)

\* deposit.data.tree_hash_root(): one leaf per deposit data
tree_hash_root(d) == d.pubkey * (MaxAmount + 1) + d.amount

(***************************************************************************)
(* DepositDataTree: the append-only accumulator of fixed depth             *)
(***************************************************************************)
Capacity(depth) == 2 ^ depth
DepositDataTree_create(leaves, count, depth) == [leaves |-> leaves, depth |-> depth]
push_leaf(tree, leaf) ==
    IF Len(tree.leaves) >= Capacity(tree.depth)
    THEN Err(Error("MerkleTreeError", 0))
    ELSE Ok([tree EXCEPT !.leaves = Append(@, leaf)])
root(tree) == Hash("deposit_root", tree.leaves)

(***************************************************************************)
(* eth2_genesis_time                                                       *)
(***************************************************************************)
\* the sum taken with wrapping addition
eth2_genesis_time_wrapping(timestamp, c) ==
    Ok((timestamp + c.genesis_delay) % (UintMax + 1))

eth2_genesis_time(timestamp, c) == safe_add(timestamp, c.genesis_delay)

(***************************************************************************)
(* BeaconState                                                             *)
(***************************************************************************)
NoState == [variant |-> "None"]
NoHeader == [variant |-> "None", payload |-> 0]

BeaconState_new(genesis_time, eth1_data, c) ==
    [variant |-> "Base",
     genesis_time |-> genesis_time,
     eth1_data |-> eth1_data,
     fork |-> [previous_version |-> c.genesis_fork_version,
               current_version |-> c.genesis_fork_version,
               epoch |-> GENESIS_EPOCH],
     randao_mixes |-> ZeroHash,
     validators |-> <<>>,
     balances |-> <<>>,
     latest_execution_payload_header |-> NoHeader,
     caches_built |-> FALSE,
     genesis_validators_root |-> ZeroHash]

fill_randao_mixes_with(st, h) == [st EXCEPT !.randao_mixes = h]

(***************************************************************************)
(* process_deposit: the deposit-processing collaborator.  It creates a     *)
(* validator for a new public key or tops up the balance of a known one,   *)
(* and it may fail (fails) with its own processing error.                  *)
(***************************************************************************)
ValidatorIndex(st, pubkey) ==
    {k \in 1..Len(st.validators) : st.validators[k].pubkey = pubkey}

NewValidator(d) ==
    [pubkey |-> d.pubkey,
     effective_balance |-> 0,
     activation_eligibility_epoch |-> FAR_FUTURE_EPOCH,
     activation_epoch |-> FAR_FUTURE_EPOCH]

process_deposit(st, d, c, flag, fails) ==
    IF fails THEN Err(Error("DepositError", 0))
    ELSE IF ValidatorIndex(st, d.pubkey) # {}
    THEN LET k == CHOOSE k \in ValidatorIndex(st, d.pubkey) : TRUE
             sum == safe_add(st.balances[k], d.amount)
         IN  IF sum.ok THEN Ok([st EXCEPT !.balances[k] = sum.val]) ELSE sum
    ELSE Ok([st EXCEPT !.validators = Append(@, NewValidator(d)),
                       !.balances = Append(@, d.amount)])

(***************************************************************************)
(* A collaborator invocation as the collaborator sees it: the state it is  *)
(* handed, the flag it is given and whether it succeeded (at: the number   *)
(* of the statement that made it, filled in when the statement is         *)
(* recorded).                                                              *)
(***************************************************************************)
Call(op, index, st, flag, ok) ==
    [op |-> op, index |-> index, at |-> 0, variant |-> st.variant,
     deposit_root |-> st.eth1_data.deposit_root,
     deposit_count |-> st.eth1_data.deposit_count,
     flag |-> flag, ok |-> ok]

(***************************************************************************)
(* The body of the deposit loop for one deposit                            *)
(***************************************************************************)
\* the loop body with the root written before the leaf is pushed
deposit_loop_body_stale(st, tree, d, index, c, fails) ==
    LET pushed == push_leaf(tree, tree_hash_root(d))
    IN  IF ~pushed.ok
        THEN [res |-> pushed, tree |-> tree, calls |-> <<>>]
        ELSE LET st1 == [st EXCEPT !.eth1_data.deposit_root = root(tree)]
                 r == process_deposit(st1, d, c, TRUE, fails)
             IN  [res |-> r, tree |-> pushed.val,
                  calls |-> <<Call("process_deposit", index, st1, TRUE, r.ok)>>]

deposit_loop_body(st, tree, d, index, c, fails) ==
    LET pushed == push_leaf(tree, tree_hash_root(d))
    IN  IF ~pushed.ok
        THEN [res |-> pushed, tree |-> tree, calls |-> <<>>]
        ELSE LET st1 == [st EXCEPT !.eth1_data.deposit_root = root(pushed.val)]
                 r == process_deposit(st1, d, c, TRUE, fails)
             IN  [res |-> r, tree |-> pushed.val,
                  calls |-> <<Call("process_deposit", index, st1, TRUE, r.ok)>>]

(***************************************************************************)
(* process_activations                                                     *)
(***************************************************************************)
\* the rounding without the cap at max_effective_balance
quantize_uncapped(balance, c) ==
    LET rem == safe_rem(balance, c.effective_balance_increment)
    IN  IF ~rem.ok THEN rem ELSE safe_sub(balance, rem.val)

quantize(balance, c) ==
    LET rem == safe_rem(balance, c.effective_balance_increment)
    IN  IF ~rem.ok THEN rem
        ELSE LET sub == safe_sub(balance, rem.val)
             IN  IF ~sub.ok THEN sub
                 ELSE Ok(Min(sub.val, c.max_effective_balance))

\* the activation test made on the balance instead of the effective balance
activate_on_balance(validator, balance, c) ==
    LET eb == quantize(balance, c)
    IN  IF ~eb.ok THEN eb
        ELSE IF balance = c.max_effective_balance
        THEN Ok([validator EXCEPT !.effective_balance = eb.val,
                                  !.activation_eligibility_epoch = GENESIS_EPOCH,
                                  !.activation_epoch = GENESIS_EPOCH])
        ELSE Ok([validator EXCEPT !.effective_balance = eb.val])

activate(validator, balance, c) ==
    LET eb == quantize(balance, c)
    IN  IF ~eb.ok THEN eb
        ELSE IF eb.val = c.max_effective_balance
        THEN Ok([validator EXCEPT !.effective_balance = eb.val,
                                  !.activation_eligibility_epoch = GENESIS_EPOCH,
                                  !.activation_epoch = GENESIS_EPOCH])
        ELSE Ok([validator EXCEPT !.effective_balance = eb.val])

\* the loop leaving after the first validator
activate_from_first_only(validators, balances, c, index) ==
    IF index > Len(validators) THEN Ok(validators)
    ELSE IF index > Len(balances) THEN Err(Error("BalancesOutOfBounds", index - 1))
    ELSE LET r == activate(validators[index], balances[index], c)
         IN  IF ~r.ok THEN r ELSE Ok([validators EXCEPT ![index] = r.val])

\* the loop reporting the missing balance by its position counted from one
RECURSIVE activate_from_one_based(_, _, _, _)
activate_from_one_based(validators, balances, c, index) ==
    IF index > Len(validators) THEN Ok(validators)
    ELSE IF index > Len(balances) THEN Err(Error("BalancesOutOfBounds", index))
    ELSE LET r == activate(validators[index], balances[index], c)
         IN  IF ~r.ok THEN r
             ELSE activate_from_one_based([validators EXCEPT ![index] = r.val],
                                          balances, c, index + 1)

RECURSIVE activate_from(_, _, _, _)
activate_from(validators, balances, c, index) ==
    IF index > Len(validators) THEN Ok(validators)
    ELSE IF index > Len(balances) THEN Err(Error("BalancesOutOfBounds", index - 1))
    ELSE LET r == activate(validators[index], balances[index], c)
         IN  IF ~r.ok THEN r
             ELSE activate_from([validators EXCEPT ![index] = r.val], balances, c, index + 1)

process_activations(st, c) ==
    LET r == activate_from(st.validators, st.balances, c, 1)
    IN  IF r.ok THEN Ok([st EXCEPT !.validators = r.val]) ELSE r

(***************************************************************************)
(* The fork upgrade functions.  Each requires the state to have the shape  *)
(* of the fork before it and fails with a variant error otherwise; it      *)
(* reshapes the state and moves the fork marker on.                        *)
(***************************************************************************)
NextFork(st, version) ==
    [previous_version |-> st.fork.current_version,
     current_version |-> version,
     epoch |-> GENESIS_EPOCH]

upgrade_to_altair(st, c, fails) ==
    IF st.variant # "Base" THEN Err(Error("IncorrectStateVariant", 0))
    ELSE IF fails THEN Err(Error("UpgradeError", 0))
    ELSE Ok([st EXCEPT !.variant = "Altair",
                       !.fork = NextFork(st, c.altair_fork_version)])

upgrade_to_bellatrix(st, c, fails) ==
    IF st.variant # "Altair" THEN Err(Error("IncorrectStateVariant", 0))
    ELSE IF fails THEN Err(Error("UpgradeError", 0))
    ELSE Ok([st EXCEPT !.variant = "Merge",
                       !.fork = NextFork(st, c.bellatrix_fork_version),
                       !.latest_execution_payload_header =
                           [variant |-> "Merge", payload |-> 0]])

upgrade_to_capella(st, c, fails) ==
    IF st.variant # "Merge" THEN Err(Error("IncorrectStateVariant", 0))
    ELSE IF fails THEN Err(Error("UpgradeError", 0))
    ELSE Ok([st EXCEPT !.variant = "Capella",
                       !.fork = NextFork(st, c.capella_fork_version),
                       !.latest_execution_payload_header.variant = "Capella"])

upgrade_to_deneb(st, c, fails) ==
    IF st.variant # "Capella" THEN Err(Error("IncorrectStateVariant", 0))
    ELSE IF fails THEN Err(Error("UpgradeError", 0))
    ELSE Ok([st EXCEPT !.variant = "Deneb",
                       !.fork = NextFork(st, c.deneb_fork_version),
                       !.latest_execution_payload_header.variant = "Deneb"])

\* latest_execution_payload_header_{merge,capella,deneb}_mut
header_mut(st, variant) ==
    IF st.variant = variant THEN Ok(st) ELSE Err(Error("IncorrectStateVariant", 0))

(***************************************************************************)
(* The fork steps of initialize_beacon_state_from_eth1                     *)
(***************************************************************************)
\* fork_epoch.map_or(false, |fork_epoch| fork_epoch == T::genesis_epoch());
\* an Option is the empty set or a singleton.  (The variant before it takes
\* an unset epoch for the genesis epoch: map_or(true, ..).)
ForkAtGenesis_or_unset(fork_epoch) ==
    fork_epoch = {} \/ \E e \in fork_epoch : e = GENESIS_EPOCH

ForkAtGenesis(fork_epoch) == \E e \in fork_epoch : e = GENESIS_EPOCH

\* if let Some(ExecutionPayloadHeader::<variant>(header)) = execution_payload_header
\* the override written whatever its variant
override_header_any_variant(st, header, variant) ==
    IF header # {}
    THEN LET h == CHOOSE h \in header : TRUE
             acc == header_mut(st, h.variant)
         IN  IF acc.ok THEN Ok([st EXCEPT !.latest_execution_payload_header = h]) ELSE acc
    ELSE Ok(st)

\* the override never written
override_header_ignored(st, header, variant) == Ok(st)

override_header(st, header, variant) ==
    IF \E h \in header : h.variant = variant
    THEN LET h == CHOOSE h \in header : h.variant = variant
             acc == header_mut(st, variant)
         IN  IF acc.ok THEN Ok([st EXCEPT !.latest_execution_payload_header = h]) ELSE acc
    ELSE Ok(st)

Skipped(st) == [res |-> Ok(st), calls |-> <<>>]

\* the altair step without the collapse of fork.previous_version
altair_step_uncollapsed(st, c, fails) ==
    IF ForkAtGenesis(c.altair_fork_epoch)
    THEN LET up == upgrade_to_altair(st, c, fails)
         IN  [res |-> up,
              calls |-> <<Call("upgrade_to_altair", 0, st, FALSE, up.ok)>>]
    ELSE Skipped(st)

altair_step(st, c, fails) ==
    IF ForkAtGenesis(c.altair_fork_epoch)
    THEN LET up == upgrade_to_altair(st, c, fails)
         IN  [res |-> IF up.ok
                      THEN Ok([up.val EXCEPT !.fork.previous_version = c.altair_fork_version])
                      ELSE up,
              calls |-> <<Call("upgrade_to_altair", 0, st, FALSE, up.ok)>>]
    ELSE Skipped(st)

bellatrix_step(st, c, header, fails) ==
    IF ForkAtGenesis(c.bellatrix_fork_epoch)
    THEN LET up == upgrade_to_bellatrix(st, c, fails)
         IN  [res |-> IF up.ok
                      THEN override_header(
                               [up.val EXCEPT !.fork.previous_version = c.bellatrix_fork_version],
                               header, "Merge")
                      ELSE up,
              calls |-> <<Call("upgrade_to_bellatrix", 0, st, FALSE, up.ok)>>]
    ELSE Skipped(st)

\* the capella step without the collapse of fork.previous_version
capella_step_uncollapsed(st, c, header, fails) ==
    IF ForkAtGenesis(c.capella_fork_epoch)
    THEN LET up == upgrade_to_capella(st, c, fails)
         IN  [res |-> IF up.ok THEN override_header(up.val, header, "Capella") ELSE up,
              calls |-> <<Call("upgrade_to_capella", 0, st, FALSE, up.ok)>>]
    ELSE Skipped(st)

capella_step(st, c, header, fails) ==
    IF ForkAtGenesis(c.capella_fork_epoch)
    THEN LET up == upgrade_to_capella(st, c, fails)
         IN  [res |-> IF up.ok
                      THEN override_header(
                               [up.val EXCEPT !.fork.previous_version = c.capella_fork_version],
                               header, "Capella")
                      ELSE up,
              calls |-> <<Call("upgrade_to_capella", 0, st, FALSE, up.ok)>>]
    ELSE Skipped(st)

deneb_step(st, c, header, fails) ==
    IF ForkAtGenesis(c.deneb_fork_epoch)
    THEN LET up == upgrade_to_deneb(st, c, fails)
         IN  [res |-> IF up.ok
                      THEN override_header(
                               [up.val EXCEPT !.fork.previous_version = c.deneb_fork_version],
                               header, "Deneb")
                      ELSE up,
              calls |-> <<Call("upgrade_to_deneb", 0, st, FALSE, up.ok)>>]
    ELSE Skipped(st)

(***************************************************************************)
(* Finalization                                                            *)
(***************************************************************************)
build_caches(st, c, fails) ==
    IF fails THEN Err(Error("CacheError", 0)) ELSE Ok([st EXCEPT !.caches_built = TRUE])

ValidatorsRoot(validators) ==
    Hash("validators",
         [k \in 1..Len(validators) |->
             <<validators[k].pubkey, validators[k].effective_balance,
               validators[k].activation_eligibility_epoch, validators[k].activation_epoch>>])

update_validators_tree_hash_cache(st, fails) ==
    IF fails THEN Err(Error("TreeHashError", 0)) ELSE Ok(ValidatorsRoot(st.validators))

(***************************************************************************)
(* is_valid_genesis_state.  The active-validator query is a collaborator:  *)
(* the validators whose activation epoch has come, or an error.            *)
(***************************************************************************)
get_active_validator_indices(st, epoch, c, fails) ==
    IF fails THEN Err(Error("QueryError", 0))
    ELSE Ok({k \in 1..Len(st.validators) : st.validators[k].activation_epoch <= epoch})

\* the genesis time left out of the test
is_valid_genesis_state_ignoring_time(st, c, fails) ==
    LET active_validators == get_active_validator_indices(st, GENESIS_EPOCH, c, fails)
    IN  IF ~active_validators.ok THEN FALSE
        ELSE Cardinality(active_validators.val) >= c.min_genesis_active_validator_count

\* the count compared with > instead of >=
is_valid_genesis_state_strict(st, c, fails) ==
    LET active_validators == get_active_validator_indices(st, GENESIS_EPOCH, c, fails)
    IN  IF ~active_validators.ok THEN FALSE
        ELSE /\ st.genesis_time >= c.min_genesis_time
             /\ Cardinality(active_validators.val) > c.min_genesis_active_validator_count

is_valid_genesis_state(st, c, fails) ==
    LET active_validators == get_active_validator_indices(st, GENESIS_EPOCH, c, fails)
    IN  IF ~active_validators.ok THEN FALSE
        ELSE /\ st.genesis_time >= c.min_genesis_time
             /\ Cardinality(active_validators.val) >= c.min_genesis_active_validator_count

(***************************************************************************)
(* The inputs of a construction                                            *)
(***************************************************************************)
Deposits == [pubkey : 1..MaxPubkey, amount : 1..MaxAmount]
DepositLists == UNION {[1..n -> Deposits] : n \in 0..MaxDeposits}

\* Option<Epoch>: None, Some(genesis epoch), Some(a later epoch)
EpochOptions == {{}, {GENESIS_EPOCH}, {GENESIS_EPOCH + 1}}

\* Option<ExecutionPayloadHeader>
HeaderOptions ==
    {{}} \cup {{[variant |-> v, payload |-> 1]} : v \in {"Merge", "Capella", "Deneb"}}

ChainSpecs ==
    [genesis_delay : {1},
     min_genesis_time : 1..MaxMinGenesisTime,
     min_genesis_active_validator_count : 0..MaxMinValidatorCount,
     effective_balance_increment : 0..MaxIncrement,
     max_effective_balance : 1..MaxMaxEffective,
     genesis_fork_version : {0},
     altair_fork_version : {1},
     bellatrix_fork_version : {2},
     capella_fork_version : {3},
     deneb_fork_version : {4},
     altair_fork_epoch : EpochOptions,
     bellatrix_fork_epoch : EpochOptions,
     capella_fork_epoch : EpochOptions,
     deneb_fork_epoch : EpochOptions]

\* The inputs tried: every deposit list with the fork chains that apply a
\* prefix of the forks at genesis and no header override, and a few deposit
\* lists with every fork configuration and every header override.  The
\* genesis thresholds vary with every deposit list when no fork is
\* configured.
PrefixAtGenesis(c) ==
    /\ c.altair_fork_epoch \in {{}, {GENESIS_EPOCH}}
    /\ c.bellatrix_fork_epoch \in {{}, c.altair_fork_epoch}
    /\ c.capella_fork_epoch \in {{}, c.bellatrix_fork_epoch}
    /\ c.deneb_fork_epoch \in {{}, c.capella_fork_epoch}

NoForkConfigured(c) ==
    /\ c.altair_fork_epoch = {}
    /\ c.bellatrix_fork_epoch = {}
    /\ c.capella_fork_epoch = {}
    /\ c.deneb_fork_epoch = {}

UnitThresholds(c) ==
    /\ c.min_genesis_time = 1
    /\ c.min_genesis_active_validator_count = 1

FewDepositLists ==
    {ds \in DepositLists :
        /\ Len(ds) <= 2
        /\ \A k \in 1..Len(ds) : ds[k].pubkey = k /\ ds[k].amount = MaxAmount}

Inputs ==
    [deposits : DepositLists, header : {{}},
     spec : {c \in ChainSpecs :
                PrefixAtGenesis(c) /\ (UnitThresholds(c) \/ NoForkConfigured(c))}]
    \cup [deposits : FewDepositLists, header : HeaderOptions,
          spec : {c \in ChainSpecs : UnitThresholds(c)}]

Pending == Err(Error("Pending", 0))
NoTree == [leaves |-> <<>>, depth |-> 0 - 1]

Init ==
    /\ eth1_block_hash = Hash("block", <<1>>)
    /\ eth1_timestamp \in {0, UintMax}
    /\ \E inp \in Inputs :
        /\ deposits = inp.deposits
        /\ execution_payload_header = inp.header
        /\ spec = inp.spec
    /\ pc = "start"
    /\ state = NoState
    /\ deposit_tree = NoTree
    /\ i = 0
    /\ result = Pending
    /\ steps = <<>>
    /\ calls = <<>>
    /\ valid = {}

(***************************************************************************)
(* The ? operator: an Ok value lets the function go on to its next         *)
(* statement, an Err makes it return that error, dropping the state under  *)
(* construction.  The last statement returns Ok(state).                    *)
(***************************************************************************)
Outcome(name, r) ==
    [step |-> name, ok |-> r.ok, err |-> IF r.ok THEN Error("None", 0) ELSE r.err]

\* the ? operator dropped: an Err is ignored and the function goes on
Propagate_swallowed(r, next, name, made) ==
    /\ steps' = Append(steps, Outcome(name, r))
    /\ calls' = calls \o [k \in 1..Len(made) |-> [made[k] EXCEPT !.at = Len(steps) + 1]]
    /\ pc' = next
    /\ state' = IF r.ok THEN r.val ELSE state
    /\ result' = IF next = "done" THEN Ok(state') ELSE result

Propagate(r, next, name, made) ==
    /\ steps' = Append(steps, Outcome(name, r))
    /\ calls' = calls \o [k \in 1..Len(made) |-> [made[k] EXCEPT !.at = Len(steps) + 1]]
    /\ IF r.ok
       THEN /\ pc' = next
            /\ state' = r.val
            /\ result' = IF next = "done" THEN Ok(r.val) ELSE result
       ELSE /\ pc' = "error"
            /\ state' = NoState
            /\ result' = r

(***************************************************************************)
(* initialize_beacon_state_from_eth1, one action per statement.  Program   *)
(* is the order of its statements; the deposit loop stays at "deposits"    *)
(* until the list is exhausted.                                            *)
(***************************************************************************)
\* the statements with the capella and deneb steps exchanged
Program_deneb_first == <<"start", "deposits", "altair", "bellatrix", "deneb", "capella",
                         "build_caches", "validators_root", "done">>

\* the statements with the validators root taken before the cache rebuild
Program_root_before_caches == <<"start", "deposits", "altair", "bellatrix", "capella",
                                "deneb", "validators_root", "build_caches", "done">>

Program == <<"start", "deposits", "altair", "bellatrix", "capella", "deneb",
             "build_caches", "validators_root", "done">>

After(p) == Program[(CHOOSE k \in 1..Len(Program) : Program[k] = p) + 1]

Start ==
    /\ pc = "start"
    /\ LET genesis_time == eth2_genesis_time(eth1_timestamp, spec)
           eth1_data == [deposit_root |-> ZeroHash,
                         deposit_count |-> Len(deposits),
                         block_hash |-> eth1_block_hash]
       IN  Propagate(IF genesis_time.ok
                     THEN Ok(fill_randao_mixes_with(
                                 BeaconState_new(genesis_time.val, eth1_data, spec),
                                 eth1_block_hash))
                     ELSE genesis_time,
                     After("start"), "eth2_genesis_time", <<>>)
    /\ deposit_tree' = IF eth2_genesis_time(eth1_timestamp, spec).ok
                       THEN DepositDataTree_create(<<>>, 0, DEPOSIT_TREE_DEPTH)
                       ELSE deposit_tree
    /\ UNCHANGED <<inputs, i, valid>>

DepositStep ==
    /\ pc = "deposits"
    /\ i < Len(deposits)
    /\ \E fails \in BOOLEAN :
         LET body == deposit_loop_body(state, deposit_tree, deposits[i + 1], i, spec, fails)
         IN  /\ Propagate(body.res, "deposits", "deposit", body.calls)
             /\ deposit_tree' = body.tree
    /\ i' = i + 1
    /\ UNCHANGED <<inputs, valid>>

Activations ==
    /\ pc = "deposits"
    /\ i = Len(deposits)
    /\ Propagate(process_activations(state, spec), After("deposits"), "process_activations", <<>>)
    /\ UNCHANGED <<inputs, deposit_tree, i, valid>>

AltairStep ==
    /\ pc = "altair"
    /\ \E fails \in BOOLEAN :
         LET step == altair_step(state, spec, fails)
         IN  Propagate(step.res, After("altair"), "altair", step.calls)
    /\ UNCHANGED <<inputs, deposit_tree, i, valid>>

BellatrixStep ==
    /\ pc = "bellatrix"
    /\ \E fails \in BOOLEAN :
         LET step == bellatrix_step(state, spec, execution_payload_header, fails)
         IN  Propagate(step.res, After("bellatrix"), "bellatrix", step.calls)
    /\ UNCHANGED <<inputs, deposit_tree, i, valid>>

CapellaStep ==
    /\ pc = "capella"
    /\ \E fails \in BOOLEAN :
         LET step == capella_step(state, spec, execution_payload_header, fails)
         IN  Propagate(step.res, After("capella"), "capella", step.calls)
    /\ UNCHANGED <<inputs, deposit_tree, i, valid>>

DenebStep ==
    /\ pc = "deneb"
    /\ \E fails \in BOOLEAN :
         LET step == deneb_step(state, spec, execution_payload_header, fails)
         IN  Propagate(step.res, After("deneb"), "deneb", step.calls)
    /\ UNCHANGED <<inputs, deposit_tree, i, valid>>

BuildCaches ==
    /\ pc = "build_caches"
    /\ \E fails \in BOOLEAN :
         LET r == build_caches(state, spec, fails)
         IN  Propagate(r, After("build_caches"), "build_caches",
                       <<Call("build_caches", 0, state, FALSE, r.ok)>>)
    /\ UNCHANGED <<inputs, deposit_tree, i, valid>>

SetValidatorsRoot ==
    /\ pc = "validators_root"
    /\ \E fails \in BOOLEAN :
         LET r == update_validators_tree_hash_cache(state, fails)
         IN  Propagate(IF r.ok THEN Ok([state EXCEPT !.genesis_validators_root = r.val]) ELSE r,
                       After("validators_root"), "genesis_validators_root",
                       <<Call("update_validators_tree_hash_cache", 0, state, FALSE, r.ok)>>)
    /\ UNCHANGED <<inputs, deposit_tree, i, valid>>

\* the orchestrator asks whether the constructed state may start the chain
IsValidGenesisState ==
    /\ pc = "done"
    /\ valid = {}
    /\ \E fails \in BOOLEAN :
         valid' = {[answer |-> is_valid_genesis_state(result.val, spec, fails),
                    query_ok |-> ~fails]}
    /\ UNCHANGED <<inputs, pc, state, deposit_tree, i, result, steps, calls>>

Next ==
    \/ Start
    \/ DepositStep
    \/ Activations
    \/ AltairStep
    \/ BellatrixStep
    \/ CapellaStep
    \/ DenebStep
    \/ BuildCaches
    \/ SetValidatorsRoot
    \/ IsValidGenesisState

Spec == Init /\ [][Next]_vars

(***************************************************************************)
(* process_activations called on its own (it is public), on a state whose  *)
(* validator list and balance list need not have the same length.  The     *)
(* state handed in is kept in state, the outcome is put in result.         *)
(***************************************************************************)
ValidatorLists ==
    UNION {[1..n -> {NewValidator([pubkey |-> p]) : p \in 1..MaxPubkey}] :
              n \in 0..MaxValidators}
BalanceLists == UNION {[1..n -> 0..MaxAmount] : n \in 0..MaxValidators}

InitAlone ==
    /\ eth1_block_hash = Hash("block", <<1>>)
    /\ eth1_timestamp = 0
    /\ deposits = <<>>
    /\ execution_payload_header = {}
    /\ spec \in {c \in ChainSpecs : NoForkConfigured(c) /\ UnitThresholds(c)}
    /\ pc = "process_activations"
    /\ \E vs \in ValidatorLists, bs \in BalanceLists :
         state = [BeaconState_new(1, [deposit_root |-> ZeroHash, deposit_count |-> 0,
                                      block_hash |-> eth1_block_hash], spec)
                     EXCEPT !.validators = vs, !.balances = bs]
    /\ deposit_tree = NoTree
    /\ i = 0
    /\ result = Pending
    /\ steps = <<>>
    /\ calls = <<>>
    /\ valid = {}

ProcessActivationsAlone ==
    /\ pc = "process_activations"
    /\ result' = process_activations(state, spec)
    /\ pc' = "returned"
    /\ UNCHANGED <<inputs, state, deposit_tree, i, steps, calls, valid>>

NextAlone ==
    \/ Start
    \/ DepositStep
    \/ Activations
    \/ AltairStep
    \/ BellatrixStep
    \/ CapellaStep
    \/ DenebStep
    \/ BuildCaches
    \/ SetValidatorsRoot
    \/ IsValidGenesisState
    \/ ProcessActivationsAlone

SpecAlone == (Init \/ InitAlone) /\ [][NextAlone]_vars

(***************************************************************************)
(* Vocabulary of the properties                                            *)
(***************************************************************************)
Returned == pc = "done"
Failed == pc = "error"

\* the accumulator created empty and given the first n deposits in order
AccumulatorOf(n) ==
    [leaves |-> [k \in 1..n |-> tree_hash_root(deposits[k])],
     depth |-> DEPOSIT_TREE_DEPTH]

DepositCalls == {k \in 1..Len(calls) : calls[k].op = "process_deposit"}

(***************************************************************************)
(* C1: whenever construction succeeds on a list of N deposits (N = 0       *)
(* included), the returned state's eth1_data.deposit_count is N and its    *)
(* eth1_data.deposit_root is the root of an accumulator created empty and  *)
(* given exactly those N leaves in input order.                            *)
(***************************************************************************)
C1_AnchorCommitsToDeposits ==
    Returned =>
        /\ result.val.eth1_data.deposit_count = Len(deposits)
        /\ result.val.eth1_data.deposit_root = root(AccumulatorOf(Len(deposits)))

(***************************************************************************)
(* C2 as stated: when process_deposit is invoked for deposit i (0-based),  *)
(* the anchor record holds the root over deposits 0..=i and the count i+1, *)
(* the deposits arrive in input order and the flag is true.                *)
(***************************************************************************)
C2_SeenRootAndRunningCount ==
    \A k \in DepositCalls :
        /\ calls[k].index = k - 1
        /\ calls[k].flag = TRUE
        /\ calls[k].deposit_root = root(AccumulatorOf(calls[k].index + 1))
        /\ calls[k].deposit_count = calls[k].index + 1

(***************************************************************************)
(* C2 (amended): when process_deposit is invoked for deposit i (0-based),  *)
(* the anchor record holds the root over deposits 0..=i, and its count is  *)
(* the length of the whole deposit list, written once when the state was   *)
(* created; the deposits arrive in strict input order, each with the flag  *)
(* set to true.                                                            *)
(***************************************************************************)
C2_SeenRootAndTotalCount ==
    /\ \A k \in DepositCalls :
        /\ calls[k].index = k - 1
        /\ calls[k].flag = TRUE
        /\ calls[k].deposit_root = root(AccumulatorOf(calls[k].index + 1))
        /\ calls[k].deposit_count = Len(deposits)
    /\ \A k \in 1..Len(calls) : k \notin DepositCalls => \A j \in DepositCalls : j < k

C2_Witness ==
    /\ Len(deposits) = 3
    /\ 2 \in DepositCalls
    /\ calls[2].ok
    /\ calls[2].deposit_count # calls[2].index + 1

(***************************************************************************)
(* The activation pass has completed and the state is still held           *)
(***************************************************************************)
Activated ==
    pc \in {"altair", "bellatrix", "capella", "deneb", "build_caches",
            "validators_root", "done"}

\* the balance of validator k rounded down to a multiple of the increment
Rounded(k) ==
    state.balances[k] - (state.balances[k] % spec.effective_balance_increment)

ActiveFromGenesis(v) ==
    /\ v.activation_eligibility_epoch = GENESIS_EPOCH
    /\ v.activation_epoch = GENESIS_EPOCH

NeverActivated(v) ==
    /\ v.activation_eligibility_epoch = FAR_FUTURE_EPOCH
    /\ v.activation_epoch = FAR_FUTURE_EPOCH

(***************************************************************************)
(* C3 as stated: after process_activations a validator is active from      *)
(* genesis if its rounded-down balance equals max_effective_balance, and   *)
(* every other validator, rounded-down balance above the maximum included, *)
(* keeps both epochs at the far-future sentinel.                           *)
(***************************************************************************)
C3_ActivatedIffRoundedEqualsMax ==
    Activated =>
        \A k \in 1..Len(state.validators) :
            IF Rounded(k) = spec.max_effective_balance
            THEN ActiveFromGenesis(state.validators[k])
            ELSE NeverActivated(state.validators[k])

(***************************************************************************)
(* C3 (amended): after process_activations a validator is active from      *)
(* genesis (both epochs equal the genesis epoch) if its rounded-down       *)
(* balance is at least max_effective_balance, that is if the rounded-down  *)
(* balance capped at the maximum equals the maximum; every other validator *)
(* (rounded-down balance below the maximum) keeps both epochs at the       *)
(* far-future sentinel.                                                    *)
(***************************************************************************)
C3_ActivatedIffRoundedReachesMax ==
    Activated =>
        \A k \in 1..Len(state.validators) :
            IF Rounded(k) >= spec.max_effective_balance
            THEN ActiveFromGenesis(state.validators[k])
            ELSE NeverActivated(state.validators[k])

C3_Witness ==
    /\ Returned
    /\ \E k \in 1..Len(state.validators) :
        /\ Rounded(k) > spec.max_effective_balance
        /\ ActiveFromGenesis(state.validators[k])
    /\ \E k \in 1..Len(state.validators) :
        /\ Rounded(k) < spec.max_effective_balance
        /\ NeverActivated(state.validators[k])

(***************************************************************************)
(* C4 as stated: for every configuration, every validator of a state that  *)
(* process_activations returned has an effective_balance that is a         *)
(* multiple of effective_balance_increment and at most                     *)
(* max_effective_balance.                                                  *)
(***************************************************************************)
C4_EffectiveBalanceMultipleAndCapped ==
    Activated =>
        \A k \in 1..Len(state.validators) :
            /\ state.validators[k].effective_balance % spec.effective_balance_increment = 0
            /\ state.validators[k].effective_balance <= spec.max_effective_balance

(***************************************************************************)
(* C4 (amended): for every configuration, every validator of a state that  *)
(* process_activations returned has an effective_balance that is at most   *)
(* max_effective_balance and that is either a multiple of                  *)
(* effective_balance_increment or equal to max_effective_balance (the cap  *)
(* is applied after the rounding, so a maximum that is not a multiple of   *)
(* the increment is stored as it is).                                      *)
(***************************************************************************)
C4_EffectiveBalanceCappedAndMultipleBelowCap ==
    Activated =>
        \A k \in 1..Len(state.validators) :
            /\ state.validators[k].effective_balance <= spec.max_effective_balance
            /\ \/ state.validators[k].effective_balance % spec.effective_balance_increment = 0
               \/ state.validators[k].effective_balance = spec.max_effective_balance

C4_Witness ==
    /\ Returned
    /\ \E k \in 1..Len(state.validators) :
        /\ state.validators[k].effective_balance = spec.max_effective_balance
        /\ spec.max_effective_balance % spec.effective_balance_increment # 0
    /\ \E k \in 1..Len(state.validators) :
        /\ state.validators[k].effective_balance < state.balances[k]
        /\ state.validators[k].effective_balance < spec.max_effective_balance

(***************************************************************************)
(* The fork chain as the properties see it                                 *)
(***************************************************************************)
Forks == <<"altair", "bellatrix", "capella", "deneb">>
Shapes == <<"Altair", "Merge", "Capella", "Deneb">>
ShapeBefore == <<"Base", "Altair", "Merge", "Capella">>
UpgradeOps == <<"upgrade_to_altair", "upgrade_to_bellatrix", "upgrade_to_capella",
                "upgrade_to_deneb">>
ForkEpochs == <<spec.altair_fork_epoch, spec.bellatrix_fork_epoch,
                spec.capella_fork_epoch, spec.deneb_fork_epoch>>
ForkVersions == <<spec.altair_fork_version, spec.bellatrix_fork_version,
                  spec.capella_fork_version, spec.deneb_fork_version>>

\* the forks whose activation epoch is the genesis epoch
AtGenesis == {f \in 1..4 : ForkEpochs[f] = {GENESIS_EPOCH}}
LastAtGenesis == CHOOSE f \in AtGenesis : \A g \in AtGenesis : g <= f

UpgradeCalls == {k \in 1..Len(calls) : \E f \in 1..4 : calls[k].op = UpgradeOps[f]}

(***************************************************************************)
(* C5 as stated: if some fork F has its activation epoch at the genesis    *)
(* epoch, the returned state has exactly F's shape and its                 *)
(* fork.previous_version is F's version identifier.                        *)
(***************************************************************************)
C5_ShapeOfAnyForkAtGenesis ==
    Returned =>
        \A f \in AtGenesis :
            /\ result.val.variant = Shapes[f]
            /\ result.val.fork.previous_version = ForkVersions[f]

(***************************************************************************)
(* C5 (amended): if at least one fork has its activation epoch at the      *)
(* genesis epoch and F is the latest such fork in the order altair,        *)
(* bellatrix, capella, deneb, then every state that                        *)
(* initialize_beacon_state_from_eth1 returns has exactly F's shape and its *)
(* fork.previous_version is F's version identifier, never that of an       *)
(* earlier fork.                                                           *)
(***************************************************************************)
C5_ShapeOfLastForkAtGenesis ==
    (Returned /\ AtGenesis # {}) =>
        /\ result.val.variant = Shapes[LastAtGenesis]
        /\ result.val.fork.previous_version = ForkVersions[LastAtGenesis]
        /\ \A f \in 1..4 :
               f # LastAtGenesis => result.val.fork.previous_version # ForkVersions[f]

C5_Witness ==
    /\ Returned
    /\ AtGenesis = {1, 2, 3}
    /\ result.val.variant = "Capella"
    /\ result.val.fork.previous_version = spec.capella_fork_version

(***************************************************************************)
(* C6: whenever the upgrade function of fork F is invoked, the state it is *)
(* handed has the shape of the fork immediately before F, for every        *)
(* combination of activation epochs.                                       *)
(***************************************************************************)
C6_UpgradeSeesPrecedingShape ==
    \A k \in UpgradeCalls :
        \A f \in 1..4 :
            calls[k].op = UpgradeOps[f] => calls[k].variant = ShapeBefore[f]

(***************************************************************************)
(* C7: the statements run in one fixed order: the genesis time, every      *)
(* deposit, the activation pass, the fork steps altair, bellatrix,         *)
(* capella, deneb (each evaluated once), the cache rebuild, the validators *)
(* root; an upgrade function is invoked only by its own fork step, hence   *)
(* after the activation pass and before the cache rebuild.                 *)
(***************************************************************************)
FixedOrder ==
    <<"eth2_genesis_time">> \o [k \in 1..Len(deposits) |-> "deposit"] \o
    <<"process_activations", "altair", "bellatrix", "capella", "deneb",
      "build_caches", "genesis_validators_root">>

C7_FixedStepOrder ==
    /\ Len(steps) <= Len(FixedOrder)
    /\ \A k \in 1..Len(steps) : steps[k].step = FixedOrder[k]
    /\ Returned => Len(steps) = Len(FixedOrder)
    /\ \A k \in UpgradeCalls :
        /\ \E f \in 1..4 : calls[k].op = UpgradeOps[f] /\ steps[calls[k].at].step = Forks[f]
        /\ \E a \in 1..(calls[k].at - 1) : steps[a].step = "process_activations" /\ steps[a].ok
        /\ \A b \in 1..calls[k].at : steps[b].step # "build_caches"

C7_Witness ==
    /\ Returned
    /\ Len(deposits) = 2
    /\ Cardinality(UpgradeCalls) = 4

(***************************************************************************)
(* C8: when no fork has its activation epoch at the genesis epoch (each is *)
(* unset or later), no upgrade function is invoked and the returned state  *)
(* keeps the base shape and the fork marker of BeaconState::new.           *)
(***************************************************************************)
C8_NoForkAtGenesisKeepsBase ==
    AtGenesis = {} =>
        /\ UpgradeCalls = {}
        /\ Returned =>
            /\ result.val.variant = "Base"
            /\ result.val.fork = BeaconState_new(0, 0, spec).fork
            /\ result.val.latest_execution_payload_header = NoHeader

C8_Witness ==
    /\ Returned
    /\ AtGenesis = {}
    /\ spec.altair_fork_epoch = {GENESIS_EPOCH + 1}
    /\ spec.bellatrix_fork_epoch = {}
    /\ result.val.variant = "Base"

(***************************************************************************)
(* C9: for each fork F of bellatrix, capella, deneb applied at genesis, a  *)
(* header override of F's variant is the state's latest execution payload  *)
(* header as soon as F's step is over; when F is the last fork applied,    *)
(* the returned state's header is the override.                            *)
(***************************************************************************)
OverrideMatches(f) == \E h \in execution_payload_header : h.variant = Shapes[f]

C9_OverrideWrittenByMatchingFork ==
    /\ [][\A f \in 2..4 :
            (/\ pc = Forks[f]
             /\ pc' # pc
             /\ pc' # "error"
             /\ f \in AtGenesis
             /\ OverrideMatches(f))
            => state'.latest_execution_payload_header \in execution_payload_header]_vars
    /\ []((Returned /\ AtGenesis # {} /\ LastAtGenesis >= 2 /\ OverrideMatches(LastAtGenesis))
            => result.val.latest_execution_payload_header \in execution_payload_header)

C9_Witness ==
    /\ Returned
    /\ AtGenesis = {1, 2, 3}
    /\ OverrideMatches(3)
    /\ result.val.latest_execution_payload_header \in execution_payload_header
    /\ result.val.latest_execution_payload_header.payload = 1

(***************************************************************************)
(* C10: construction is all-or-nothing.  A statement or a collaborator     *)
(* call that fails is the last one made; the function then returns exactly *)
(* that error and holds no state; a state is returned only after every     *)
(* statement succeeded.                                                    *)
(***************************************************************************)
C10_AllOrNothing ==
    /\ \A k \in 1..Len(steps) : ~steps[k].ok => (k = Len(steps) /\ Failed)
    /\ \A k \in 1..Len(calls) :
           ~calls[k].ok => (k = Len(calls) /\ Failed /\ calls[k].at = Len(steps))
    /\ Failed =>
        /\ Len(steps) >= 1
        /\ ~steps[Len(steps)].ok
        /\ result = Err(steps[Len(steps)].err)
        /\ state = NoState
    /\ result.ok => Returned
    /\ Returned => (result = Ok(state) /\ \A k \in 1..Len(steps) : steps[k].ok)

C10_Witness ==
    /\ Failed
    /\ result.err.kind = "DepositError"
    /\ Len(calls) = 2
    /\ i = 2
    /\ Len(deposits) = 3

(***************************************************************************)
(* C11: is_valid_genesis_state answers true exactly when the               *)
(* active-validator query at the genesis epoch succeeds, the genesis time  *)
(* is at least min_genesis_time and the number of active validators is at  *)
(* least min_genesis_active_validator_count; a failing query gives false.  *)
(***************************************************************************)
ActiveAtGenesis ==
    {k \in 1..Len(result.val.validators) :
        result.val.validators[k].activation_epoch = GENESIS_EPOCH}

C11_ValidIffThresholdsMet ==
    \A v \in valid :
        v.answer <=>
            /\ v.query_ok
            /\ result.val.genesis_time >= spec.min_genesis_time
            /\ Cardinality(ActiveAtGenesis) >= spec.min_genesis_active_validator_count

C11_Witness ==
    /\ valid # {}
    /\ \A v \in valid : v.answer
    /\ spec.min_genesis_active_validator_count = 2
    /\ Cardinality(ActiveAtGenesis) = 2
    /\ result.val.genesis_time = spec.min_genesis_time

(***************************************************************************)
(* The scenario of one deposit of exactly max_effective_balance and no     *)
(* fork at genesis                                                         *)
(***************************************************************************)
OneMaxDeposit ==
    /\ Len(deposits) = 1
    /\ deposits[1].amount = spec.max_effective_balance
    /\ AtGenesis = {}

(***************************************************************************)
(* C12 as stated: in that scenario the returned state has exactly one      *)
(* validator, active from the genesis epoch, and deposit_count 1, and      *)
(* is_valid_genesis_state is true exactly when                             *)
(* min_genesis_active_validator_count <= 1 and eth1_timestamp +            *)
(* genesis_delay >= min_genesis_time.                                      *)
(***************************************************************************)
C12_OneMaxDepositActivates ==
    (Returned /\ OneMaxDeposit) =>
        /\ Len(result.val.validators) = 1
        /\ result.val.validators[1].activation_epoch = GENESIS_EPOCH
        /\ result.val.eth1_data.deposit_count = 1
        /\ \A v \in valid :
               v.answer <=>
                   /\ spec.min_genesis_active_validator_count <= 1
                   /\ eth1_timestamp + spec.genesis_delay >= spec.min_genesis_time

(***************************************************************************)
(* C12 (amended): in that scenario every returned state has exactly one    *)
(* validator and deposit_count 1; the validator's activation_epoch is the  *)
(* genesis epoch exactly when max_effective_balance is a multiple of       *)
(* effective_balance_increment and is the far-future sentinel otherwise;   *)
(* is_valid_genesis_state is true exactly when the active-validator query  *)
(* succeeds, eth1_timestamp + genesis_delay >= min_genesis_time and        *)
(* min_genesis_active_validator_count is at most the number of active      *)
(* validators (1 if the validator was activated, 0 if not).                *)
(***************************************************************************)
MaxIsMultiple == spec.max_effective_balance % spec.effective_balance_increment = 0

C12_OneMaxDepositActivatesIfMultiple ==
    (Returned /\ OneMaxDeposit) =>
        /\ Len(result.val.validators) = 1
        /\ result.val.eth1_data.deposit_count = 1
        /\ result.val.validators[1].activation_epoch =
               IF MaxIsMultiple THEN GENESIS_EPOCH ELSE FAR_FUTURE_EPOCH
        /\ \A v \in valid :
               v.answer <=>
                   /\ v.query_ok
                   /\ eth1_timestamp + spec.genesis_delay >= spec.min_genesis_time
                   /\ spec.min_genesis_active_validator_count
                          <= (IF MaxIsMultiple THEN 1 ELSE 0)

C12_Witness ==
    /\ Returned
    /\ OneMaxDeposit
    /\ ~MaxIsMultiple
    /\ result.val.validators[1].activation_epoch = FAR_FUTURE_EPOCH
    /\ spec.min_genesis_active_validator_count = 0
    /\ valid # {}
    /\ \A v \in valid : v.answer

(***************************************************************************)
(* C14: arithmetic never wraps.  The genesis time is exactly               *)
(* eth1_timestamp + genesis_delay when the sum fits the unsigned type;     *)
(* when it does not, construction fails with an arithmetic error before a  *)
(* state, a deposit tree or a collaborator call exists.  In the activation *)
(* pass a zero effective_balance_increment with at least one validator     *)
(* fails with an arithmetic error and yields no state; any other pass      *)
(* succeeds.                                                               *)
(***************************************************************************)
ActivationSteps == {k \in 1..Len(steps) : steps[k].step = "process_activations"}

C14_ArithmeticNeverWraps ==
    /\ Len(steps) >= 1 =>
        IF eth1_timestamp + spec.genesis_delay <= UintMax
        THEN /\ steps[1].ok
             /\ state.variant # "None" =>
                    state.genesis_time = eth1_timestamp + spec.genesis_delay
        ELSE /\ Failed
             /\ Len(steps) = 1
             /\ result = Err(Error("ArithError", 0))
             /\ state = NoState
             /\ deposit_tree = NoTree
             /\ calls = <<>>
    /\ \A k \in ActivationSteps :
        IF spec.effective_balance_increment = 0 /\ Len(deposits) >= 1
        THEN /\ ~steps[k].ok
             /\ steps[k].err = Error("ArithError", 0)
             /\ Failed
             /\ state = NoState
        ELSE steps[k].ok

C14_Witness ==
    /\ Failed
    /\ ActivationSteps # {}
    /\ spec.effective_balance_increment = 0
    /\ Len(deposits) = 2
    /\ result = Err(Error("ArithError", 0))

(***************************************************************************)
(* C15: at every point of a construction the validator list and the        *)
(* balance list have the same length and are aligned: the balance at an    *)
(* index is the sum of the deposits processed so far for the public key of *)
(* the validator at that index.  Hence the activation pass of the          *)
(* pipeline never fails with BalancesOutOfBounds; process_activations      *)
(* called on its own gives that error only on a state with fewer balances  *)
(* than validators, and the error names the first index (counted from      *)
(* zero) that has no balance.                                              *)
(***************************************************************************)
RECURSIVE Deposited(_, _)
Deposited(pubkey, n) ==
    IF n = 0 THEN 0
    ELSE Deposited(pubkey, n - 1) +
         (IF deposits[n].pubkey = pubkey THEN deposits[n].amount ELSE 0)

Constructing == pc \notin {"process_activations", "returned"}

C15_BalancesAligned ==
    /\ (Constructing /\ state.variant # "None") =>
        /\ Len(state.validators) = Len(state.balances)
        /\ \A k \in 1..Len(state.validators) :
            /\ state.balances[k] = Deposited(state.validators[k].pubkey, i)
            /\ \A j \in 1..Len(state.validators) :
                   state.validators[j].pubkey = state.validators[k].pubkey => j = k
    /\ (Constructing /\ Failed) => result.err.kind # "BalancesOutOfBounds"
    /\ pc = "returned" =>
        /\ (~result.ok /\ result.err.kind = "BalancesOutOfBounds") =>
            /\ Len(state.balances) < Len(state.validators)
            /\ result.err.index = Len(state.balances)
        /\ Len(state.balances) < Len(state.validators) =>
            /\ ~result.ok
            /\ (spec.effective_balance_increment # 0 \/ Len(state.balances) = 0) =>
                   result.err.kind = "BalancesOutOfBounds"

C15_Witness ==
    /\ pc = "returned"
    /\ Len(state.validators) = 2
    /\ Len(state.balances) = 1
    /\ result = Err(Error("BalancesOutOfBounds", 1))

(***************************************************************************)
(* C16: genesis_validators_root is written once, by the last statement,    *)
(* when the fork chain and the cache rebuild are over; until then it holds *)
(* the zero hash; nothing is changed after it, so that in every returned   *)
(* state it is the commitment root of that state's validator list.         *)
(***************************************************************************)
Held == state.variant # "None"

C16_ValidatorsRootWrittenLast ==
    /\ []((Constructing /\ Held /\ ~Returned) => state.genesis_validators_root = ZeroHash)
    /\ [](Returned =>
            /\ result.val.caches_built
            /\ result.val.genesis_validators_root = ValidatorsRoot(result.val.validators)
            /\ steps[Len(steps)].step = "genesis_validators_root"
            /\ steps[Len(steps) - 1].step = "build_caches")
    /\ [][(Held /\ state'.variant # "None" /\
           state'.genesis_validators_root # state.genesis_validators_root)
            => (pc = "validators_root" /\ pc' = "done" /\ state.caches_built /\
                state'.validators = state.validators)]_vars
    /\ [][Returned => (state' = state /\ result' = result)]_vars

C16_Witness ==
    /\ Returned
    /\ Len(result.val.validators) = 2
    /\ AtGenesis = {1, 2}
    /\ result.val.genesis_validators_root = ValidatorsRoot(result.val.validators)
    /\ \E k \in 1..2 : result.val.validators[k].activation_epoch = GENESIS_EPOCH

(***************************************************************************)
(* C17: activation is decided once, on the balance accumulated by all the  *)
(* deposits.  After the pass every validator's balance is the sum of all   *)
(* the deposits for its public key, its effective balance is that sum      *)
(* rounded down and capped, and it is active from genesis when the rounded *)
(* sum reaches max_effective_balance, also when no single deposit did.     *)
(* The pass runs when every deposit has been taken in, keeps every         *)
(* validator and leaves the balances alone.                                *)
(***************************************************************************)
C17_ActivationOnCumulativeBalance ==
    /\ [](Activated =>
            \A k \in 1..Len(state.validators) :
                /\ state.balances[k] = Deposited(state.validators[k].pubkey, Len(deposits))
                /\ state.validators[k].effective_balance =
                       Min(Rounded(k), spec.max_effective_balance)
                /\ Rounded(k) >= spec.max_effective_balance =>
                       /\ state.validators[k].effective_balance = spec.max_effective_balance
                       /\ ActiveFromGenesis(state.validators[k]))
    /\ [][(pc = "deposits" /\ pc' = "altair") =>
            /\ i = Len(deposits)
            /\ state'.balances = state.balances
            /\ Len(state'.validators) = Len(state.validators)
            /\ \A k \in 1..Len(state.validators) :
                   state'.validators[k].pubkey = state.validators[k].pubkey]_vars
    /\ [][(pc \in {"start", "deposits", "error"}) \/ (pc' = "error") \/
          (state'.validators = state.validators /\ state'.balances = state.balances)]_vars

C17_Witness ==
    /\ Returned
    /\ Len(deposits) = 2
    /\ deposits[1].pubkey = deposits[2].pubkey
    /\ deposits[1].amount < spec.max_effective_balance
    /\ deposits[2].amount < spec.max_effective_balance
    /\ Len(result.val.validators) = 1
    /\ result.val.validators[1].effective_balance = spec.max_effective_balance
    /\ ActiveFromGenesis(result.val.validators[1])

(***************************************************************************)
(* C18: a header override whose variant is that of no fork applied at      *)
(* genesis is ignored.  Every fork step then has the outcome (state or     *)
(* error, and calls) it has without an override, so the construction runs  *)
(* exactly as it does without one, and the header is never the override.   *)
(***************************************************************************)
UnmatchedOverride ==
    /\ execution_payload_header # {}
    /\ \A f \in 2..4 : f \in AtGenesis => ~OverrideMatches(f)

SameOutcome(a, b) ==
    /\ a.calls = b.calls
    /\ a.res.ok = b.res.ok
    /\ IF a.res.ok /\ b.res.ok THEN a.res.val = b.res.val ELSE TRUE
    /\ IF ~a.res.ok /\ ~b.res.ok THEN a.res.err = b.res.err ELSE TRUE

C18_UnmatchedOverrideIgnored ==
    UnmatchedOverride =>
        /\ pc = "bellatrix" =>
            \A fails \in BOOLEAN :
                SameOutcome(bellatrix_step(state, spec, execution_payload_header, fails),
                            bellatrix_step(state, spec, {}, fails))
        /\ pc = "capella" =>
            \A fails \in BOOLEAN :
                SameOutcome(capella_step(state, spec, execution_payload_header, fails),
                            capella_step(state, spec, {}, fails))
        /\ pc = "deneb" =>
            \A fails \in BOOLEAN :
                SameOutcome(deneb_step(state, spec, execution_payload_header, fails),
                            deneb_step(state, spec, {}, fails))
        /\ (Constructing /\ Held) =>
            /\ state.latest_execution_payload_header \notin execution_payload_header
            /\ state.latest_execution_payload_header.payload = 0
        /\ Failed => result.err.kind # "IncorrectStateVariant" \/
                     \E k \in UpgradeCalls : ~calls[k].ok

C18_Witness ==
    /\ Returned
    /\ AtGenesis = {1, 2}
    /\ OverrideMatches(4)
    /\ result.val.latest_execution_payload_header = [variant |-> "Merge", payload |-> 0]

(***************************************************************************)
(* C19: in every returned state fork.previous_version equals               *)
(* fork.current_version: both are the genesis version when no fork is      *)
(* applied at genesis, and both are the version of the last fork applied   *)
(* otherwise, which is not the genesis version.                            *)
(***************************************************************************)
C19_ForkVersionsCollapsed ==
    Returned =>
        LET fork == result.val.fork
        IN  /\ fork.previous_version = fork.current_version
            /\ AtGenesis = {} => fork.current_version = spec.genesis_fork_version
            /\ AtGenesis # {} =>
                /\ fork.current_version = ForkVersions[LastAtGenesis]
                /\ fork.previous_version # spec.genesis_fork_version

C19_Witness ==
    /\ Returned
    /\ AtGenesis = {1}
    /\ result.val.fork.previous_version = spec.altair_fork_version
    /\ result.val.fork.current_version = spec.altair_fork_version
    /\ spec.altair_fork_version # spec.genesis_fork_version

====
